---- MODULE Spec2Model ----
(***************************************************************************)
(* A model of the LeafClusterer marker clustering engine                   *)
(* (src/leafclusterer.js; src/unnamed/part_000 is the same engine written  *)
(* with Leaflet classes).                                                  *)
(*                                                                         *)
(* Encoding conventions                                                    *)
(*   - a JavaScript value that may be null is a sequence of length 0 or 1: *)
(*     <<>> is null, <<v>> is the value v;                                 *)
(*   - a Cluster object is a record; the objects of clusters_ are          *)
(*     identified by their index in clusters_;                             *)
(*   - the host map is its zoom, its bounds, the set of markers attached   *)
(*     to it (layers) and the number of attached ClusterMarker_ overlays   *)
(*     (badges);                                                           *)
(*   - latLngToLayerPoint multiplies by 2^zoom (pixel distances double per *)
(*     zoom level); the layer origin cancels in every comparison the       *)
(*     engine makes and is left out.                                       *)
(***************************************************************************)
EXTENDS Integers, Sequences, FiniteSets

\* ---- bounds of the model ----
NumMarkers == 3
MaxZoomLevel == 1
MaxBatch == 1

\* ---- program constants ----
gridSize_ == 40

Markers == 1..NumMarkers
Zooms == 0..MaxZoomLevel

\* the host map's maximum zoom, map_.getMaxZoom()
MapMaxZoom == MaxZoomLevel

\* marker.getLatLng(): the geographic position of each caller-owned marker
LatLng(m) ==
  CASE m = 1 -> [lng |-> 0, lat |-> 0]
    [] m = 2 -> [lng |-> 20, lat |-> 0]
    [] m = 3 -> [lng |-> 20, lat |-> 30]
    [] m = 4 -> [lng |-> 100, lat |-> 100]
    [] OTHER -> [lng |-> 0 - 30, lat |-> 10 * m]

\* the views the host map can show, map_.getBounds()
Viewports ==
  { [sw |-> [lng |-> 0 - 50, lat |-> 0 - 50], ne |-> [lng |-> 150, lat |-> 150]],
    [sw |-> [lng |-> 0 - 10, lat |-> 0 - 10], ne |-> [lng |-> 5, lat |-> 5]] }

\* the values of the maxZoom option: not given (null), or a number, here the
\* zoom level below the host map's maximum
MaxZoomOptions == { <<>>, <<MapMaxZoom - 1>> }

VARIABLES
  clusters_,      \* LeafClusterer.clusters_: sequence of Cluster records
  leftMarkers_,   \* LeafClusterer.leftMarkers_: markers deferred as outside the viewport
  maxZoom_,       \* LeafClusterer.maxZoom_: null or a number
  mapZoom,        \* map_.getZoom()
  mapBounds,      \* map_.getBounds()
  layers,         \* markers attached to the map by map_.addLayer(marker)
  badges,         \* number of ClusterMarker_ overlays attached to the map
  registered,     \* history: markers handed to the engine and not removed since
  last            \* history: the last operation, the marker given to addMarker
                  \* (else 0), and the operation's outcome

vars == <<clusters_, leftMarkers_, maxZoom_, mapZoom, mapBounds, layers, badges,
          registered, last>>

\* ---- arithmetic and sequence helpers ----
RECURSIVE Pow2R(_)
Pow2R(n) == IF n <= 0 THEN 1 ELSE 2 * Pow2R(n - 1)

\* the powers of two the model needs, computed once
Pow2Table == [n \in 0..(2 * MaxZoomLevel) |-> Pow2R(n)]

\* Math.pow(2, n) for 0 <= n <= 2 * MaxZoomLevel
Pow2(n) == Pow2Table[n]

\* Array.prototype.splice(j, 1) with a 1-based index
SpliceOne(s, j) == [k \in 1..(Len(s) - 1) |-> IF k < j THEN s[k] ELSE s[k + 1]]

Range(s) == { s[k] : k \in DOMAIN s }

\* ---- host map ----
latLngToLayerPoint(p, z) == [x |-> p.lng * Pow2(z), y |-> 0 - (p.lat * Pow2(z))]

BoundsContains(b, p) ==
  /\ b.sw.lat <= p.lat /\ p.lat <= b.ne.lat
  /\ b.sw.lng <= p.lng /\ p.lng <= b.ne.lng

\* ---- ClusterMarker_ (the badge) ----
ClusterMarker_new(count) == [count_ |-> count, hidden |-> FALSE]

ClusterMarker_hide(cm) == [cm EXCEPT !.hidden = TRUE]

\* a reset that loses the new count
ClusterMarker_reset_stale(cm, count) == cm

\* reset({count}) followed by redraw(): this.updated is set to 1 by the
\* constructor's reset and never cleared, so redraw always rebuilds the div
\* with the current count, and a rebuilt div is displayed
ClusterMarker_reset(cm, count) == [cm EXCEPT !.count_ = count]

ClusterMarker_redraw(cm) == [cm EXCEPT !.hidden = FALSE]

\* ---- Cluster ----
Cluster_new(v) ==
  [center_ |-> <<>>, markers_ |-> <<>>, clusterMarker_ |-> <<>>, zoom_ |-> v.zoom]

Cluster_getTotalMarkers(c) == Len(c.markers_)

Cluster_members(c) == { c.markers_[k].marker : k \in DOMAIN c.markers_ }

\* an isInBounds that keeps the plain gridSize_ whatever the cluster's zoom
Cluster_isInBounds_unscaled(c, v) ==
  IF c.center_ = <<>> THEN FALSE
  ELSE
    LET sw == latLngToLayerPoint(v.bounds.sw, v.zoom)
        ne == latLngToLayerPoint(v.bounds.ne, v.zoom)
        centerxy == latLngToLayerPoint(c.center_[1], v.zoom)
        xOut == /\ ne.x # sw.x
                /\ \/ centerxy.x + gridSize_ < sw.x
                   \/ centerxy.x - gridSize_ > ne.x
        yOut == \/ centerxy.y + gridSize_ < ne.y
                \/ centerxy.y - gridSize_ > sw.y
    IN ~xOut /\ ~yOut

Cluster_isInBounds(c, v) ==
  IF c.center_ = <<>> THEN FALSE
  ELSE
    LET sw == latLngToLayerPoint(v.bounds.sw, v.zoom)
        ne == latLngToLayerPoint(v.bounds.ne, v.zoom)
        centerxy == latLngToLayerPoint(c.center_[1], v.zoom)
        \* all lengths below are in units of 2^-MaxZoomLevel pixel, so that
        \* Math.pow(2, dl) * gridSize is exact for a negative dl
        unit == Pow2(MaxZoomLevel)
        dl == v.zoom - c.zoom_
        gridSize == IF c.zoom_ # v.zoom
                    THEN Pow2(dl + MaxZoomLevel) * gridSize_
                    ELSE unit * gridSize_
        xOut == /\ ne.x # sw.x
                /\ \/ unit * centerxy.x + gridSize < unit * sw.x
                   \/ unit * centerxy.x - gridSize > unit * ne.x
        yOut == \/ unit * centerxy.y + gridSize < unit * ne.y
                \/ unit * centerxy.y - gridSize > unit * sw.y
    IN ~xOut /\ ~yOut

\* an addMarker that also resets the cluster's zoom stamp
Cluster_addMarker_restamps(c, rec) ==
  [c EXCEPT !.center_ = IF c.center_ = <<>> THEN <<LatLng(rec.marker)>> ELSE c.center_,
            !.markers_ = Append(c.markers_, rec),
            !.zoom_ = 0]

\* an addMarker that moves the center to each new member's position
Cluster_addMarker_recenters(c, rec) ==
  [c EXCEPT !.center_ = <<LatLng(rec.marker)>>,
            !.markers_ = Append(c.markers_, rec)]

Cluster_addMarker(c, rec) ==
  [c EXCEPT !.center_ = IF c.center_ = <<>> THEN <<LatLng(rec.marker)>> ELSE c.center_,
            !.markers_ = Append(c.markers_, rec)]

\* lines 528-531 of redraw_: the max zoom in force
redrawMz == IF maxZoom_ = <<>> THEN MapMaxZoom ELSE maxZoom_[1]

\* the max-zoom test with > in place of >=
showsMarkers_strict(c, v) == v.zoom > redrawMz \/ Cluster_getTotalMarkers(c) = 1

\* line 532 of redraw_, evaluated after zoom_ was set to the map's zoom
showsMarkers(c, v) == v.zoom >= redrawMz \/ Cluster_getTotalMarkers(c) = 1

\* a redraw_ whose aggregate branch builds and attaches a badge on every call
Cluster_redraw_newBadge(c, ov, isForce, v) ==
  IF ~isForce /\ ~Cluster_isInBounds(c, v)
  THEN [c |-> c, layers |-> ov.layers, badges |-> ov.badges, drawn |-> FALSE]
  ELSE
    LET n == Len(c.markers_)
    IN IF showsMarkers(c, v)
       THEN [c |-> [c EXCEPT
                      !.zoom_ = v.zoom,
                      !.markers_ = [k \in 1..n |-> [marker |-> c.markers_[k].marker,
                                                    isAdded |-> TRUE]],
                      !.clusterMarker_ = IF c.clusterMarker_ = <<>> THEN <<>>
                                         ELSE <<ClusterMarker_hide(c.clusterMarker_[1])>>],
             layers |-> ov.layers \cup Cluster_members(c),
             badges |-> ov.badges,
             drawn |-> TRUE]
       ELSE [c |-> [c EXCEPT !.zoom_ = v.zoom,
                             !.clusterMarker_ = <<ClusterMarker_new(n)>>],
             layers |-> ov.layers \ { c.markers_[k].marker :
                                        k \in { j \in 1..n : c.markers_[j].isAdded } },
             badges |-> ov.badges + 1,
             drawn |-> TRUE]

\* a redraw_ whose aggregate branch leaves the attached markers on the map
Cluster_redraw_keepsMarkers(c, ov, isForce, v) ==
  IF ~isForce /\ ~Cluster_isInBounds(c, v)
  THEN [c |-> c, layers |-> ov.layers, badges |-> ov.badges, drawn |-> FALSE]
  ELSE
    LET n == Len(c.markers_)
    IN IF showsMarkers(c, v)
       THEN [c |-> [c EXCEPT
                      !.zoom_ = v.zoom,
                      !.markers_ = [k \in 1..n |-> [marker |-> c.markers_[k].marker,
                                                    isAdded |-> TRUE]],
                      !.clusterMarker_ = IF c.clusterMarker_ = <<>> THEN <<>>
                                         ELSE <<ClusterMarker_hide(c.clusterMarker_[1])>>],
             layers |-> ov.layers \cup Cluster_members(c),
             badges |-> ov.badges,
             drawn |-> TRUE]
       ELSE [c |-> [c EXCEPT
                      !.zoom_ = v.zoom,
                      !.clusterMarker_ =
                        IF c.clusterMarker_ = <<>>
                        THEN <<ClusterMarker_new(n)>>
                        ELSE <<ClusterMarker_redraw(
                                 ClusterMarker_reset(c.clusterMarker_[1], n))>>],
             layers |-> ov.layers,
             badges |-> IF c.clusterMarker_ = <<>> THEN ov.badges + 1 ELSE ov.badges,
             drawn |-> TRUE]

\* the result of redraw_ on cluster c with the map overlays ov = [layers, badges]
Cluster_redraw_(c, ov, isForce, v) ==
  IF ~isForce /\ ~Cluster_isInBounds(c, v)
  THEN [c |-> c, layers |-> ov.layers, badges |-> ov.badges, drawn |-> FALSE]
  ELSE
    LET n == Len(c.markers_)
    IN IF showsMarkers(c, v)
       THEN [c |-> [c EXCEPT
                      !.zoom_ = v.zoom,
                      !.markers_ = [k \in 1..n |-> [marker |-> c.markers_[k].marker,
                                                    isAdded |-> TRUE]],
                      !.clusterMarker_ = IF c.clusterMarker_ = <<>> THEN <<>>
                                         ELSE <<ClusterMarker_hide(c.clusterMarker_[1])>>],
             layers |-> ov.layers \cup Cluster_members(c),
             badges |-> ov.badges,
             drawn |-> TRUE]
       ELSE [c |-> [c EXCEPT
                      !.zoom_ = v.zoom,
                      !.clusterMarker_ =
                        IF c.clusterMarker_ = <<>>
                        THEN <<ClusterMarker_new(n)>>
                        ELSE <<ClusterMarker_redraw(
                                 ClusterMarker_reset(c.clusterMarker_[1], n))>>],
             layers |-> ov.layers \ { c.markers_[k].marker :
                                        k \in { j \in 1..n : c.markers_[j].isAdded } },
             badges |-> IF c.clusterMarker_ = <<>> THEN ov.badges + 1 ELSE ov.badges,
             drawn |-> TRUE]

\* a clearMarkers that leaves the cluster's badge on the map
Cluster_clearMarkers_keepsBadge(c, ov) ==
  [c |-> [c EXCEPT !.markers_ = <<>>],
   layers |-> ov.layers \ { c.markers_[k].marker :
                              k \in { j \in DOMAIN c.markers_ : c.markers_[j].isAdded } },
   badges |-> ov.badges]

\* the result of clearMarkers on cluster c with the map overlays ov
Cluster_clearMarkers(c, ov) ==
  [c |-> [c EXCEPT !.markers_ = <<>>],
   layers |-> ov.layers \ { c.markers_[k].marker :
                              k \in { j \in DOMAIN c.markers_ : c.markers_[j].isAdded } },
   badges |-> IF c.clusterMarker_ # <<>> THEN ov.badges - 1 ELSE ov.badges]

\* ---- LeafClusterer ----
\* The engine operations are functions on a record e holding the engine's
\* fields and the map overlays while one public call runs:
\*   clusters_, leftMarkers_, layers, badges   as the variables of the same name
\*   local     the array `clusters` of reAddMarkers_, as indices into clusters_
\*   redrawn   indices of the clusters whose redraw_ ran and was not skipped
\*   created   number of Cluster objects constructed
\*   removed   number of clusters dissolved (resetViewport) or cleared
\*             (clearMarkers), or of markers removed (removeMarker)
\*   err       "none", or the exception that ended the call
\* v = [zoom, bounds] is the view of the host map during the call.

\* a viewport test that accepts every marker
isMarkerInViewport_always(marker, v) == TRUE

isMarkerInViewport_(marker, v) == BoundsContains(v.bounds, LatLng(marker))

getTotalMarkersOf(cls) ==
  LET RECURSIVE sum(_)
      sum(i) == IF i > Len(cls) THEN 0 ELSE Cluster_getTotalMarkers(cls[i]) + sum(i + 1)
  IN sum(1)

getTotalMarkers == getTotalMarkersOf(clusters_)

getTotalClusters == Len(clusters_)

\* a getClustersInViewport_ that returns every cluster
getClustersInViewport_all(e, v) == [k \in 1..Len(e.clusters_) |-> k]

getClustersInViewport_(e, v) ==
  SelectSeq([k \in 1..Len(e.clusters_) |-> k],
            LAMBDA k : Cluster_isInBounds(e.clusters_[k], v))

\* the grid test with strict comparisons
InGrid_strict(pos, center) ==
  /\ pos.x > center.x - gridSize_ /\ pos.x < center.x + gridSize_
  /\ pos.y > center.y - gridSize_ /\ pos.y < center.y + gridSize_

\* the test of lines 218-219 on two layer points
InGrid(pos, center) ==
  /\ pos.x >= center.x - gridSize_ /\ pos.x <= center.x + gridSize_
  /\ pos.y >= center.y - gridSize_ /\ pos.y <= center.y + gridSize_

\* a scan of the candidate list from its first element on
findCluster_forward(e, clusters, i, pos, v) ==
  LET hits == { k \in 1..i :
                  /\ e.clusters_[clusters[k]].center_ # <<>>
                  /\ InGrid(pos, latLngToLayerPoint(e.clusters_[clusters[k]].center_[1],
                                                    v.zoom)) }
  IN IF hits = {} THEN 0 ELSE CHOOSE k \in hits : \A h \in hits : k <= h

\* the loop of lines 209-229: the position in the candidate list `clusters`
\* of the cluster the marker joins, scanning from position i down to 1;
\* 0 when no cluster contains the marker
RECURSIVE findCluster(_, _, _, _, _)
findCluster(e, clusters, i, pos, v) ==
  IF i = 0 THEN 0
  ELSE LET center == e.clusters_[clusters[i]].center_
       IN IF center = <<>> THEN findCluster(e, clusters, i - 1, pos, v)
          ELSE IF InGrid(pos, latLngToLayerPoint(center[1], v.zoom)) THEN i
          ELSE findCluster(e, clusters, i - 1, pos, v)

\* an addMarker that founds a cluster for every marker and puts it at the head
\* of clusters_
addMarker_front(e, marker, opt_isNodraw, opt_isAdded, opt_clusters, opt_isNoCheck, v) ==
  [e EXCEPT !.clusters_ = <<Cluster_addMarker(Cluster_new(v),
                                              [isAdded |-> FALSE, marker |-> marker])>>
                          \o e.clusters_,
            !.created = e.created + 1]

\* opt_isAdded is null or <<boolean>>; opt_clusters is "null" or "local",
\* the array created by reAddMarkers_
addMarker(e, marker, opt_isNodraw, opt_isAdded, opt_clusters, opt_isNoCheck, v) ==
  IF ~opt_isNoCheck /\ ~isMarkerInViewport_(marker, v)
  THEN [e EXCEPT !.leftMarkers_ = Append(e.leftMarkers_, marker)]
  ELSE
    LET isAdded == IF opt_isAdded = <<>> THEN FALSE ELSE opt_isAdded[1]
        pos == latLngToLayerPoint(LatLng(marker), v.zoom)
        clusters == IF opt_clusters = "local" THEN e.local
                    ELSE [k \in 1..Len(e.clusters_) |-> k]
        i == findCluster(e, clusters, Len(clusters), pos, v)
        rec == [isAdded |-> isAdded, marker |-> marker]
        draw(c) == IF opt_isNodraw
                   THEN [c |-> c, layers |-> e.layers, badges |-> e.badges, drawn |-> FALSE]
                   ELSE Cluster_redraw_(c, e, FALSE, v)
    IN IF i > 0
       THEN LET g == clusters[i]
                r == draw(Cluster_addMarker(e.clusters_[g], rec))
            IN [e EXCEPT !.clusters_ = [e.clusters_ EXCEPT ![g] = r.c],
                         !.layers = r.layers,
                         !.badges = r.badges,
                         !.redrawn = IF r.drawn THEN e.redrawn \cup {g} ELSE e.redrawn]
       ELSE LET g == Len(e.clusters_) + 1
                r == draw(Cluster_addMarker(Cluster_new(v), rec))
            IN [e EXCEPT !.clusters_ = Append(e.clusters_, r.c),
                         !.local = IF opt_clusters = "local" THEN Append(e.local, g)
                                   ELSE e.local,
                         !.layers = r.layers,
                         !.badges = r.badges,
                         !.redrawn = IF r.drawn THEN e.redrawn \cup {g} ELSE e.redrawn,
                         !.created = e.created + 1]

\* the loop of addLeftMarkers_ from index i on
RECURSIVE addLeftLoop(_, _, _)
addLeftLoop(e, i, v) ==
  IF i > Len(e.leftMarkers_) THEN e
  ELSE addLeftLoop(addMarker(e, e.leftMarkers_[i], TRUE, <<>>, "null", TRUE, v), i + 1, v)

\* an addLeftMarkers_ that does not empty the pending list
addLeftMarkers_keepsList(e, v) ==
  IF Len(e.leftMarkers_) = 0 THEN e ELSE addLeftLoop(e, 1, v)

addLeftMarkers_(e, v) ==
  IF Len(e.leftMarkers_) = 0 THEN e
  ELSE [addLeftLoop(e, 1, v) EXCEPT !.leftMarkers_ = <<>>]

\* a loop of reAddMarkers_ that hands addMarker no candidate array, so that
\* it falls back on clusters_
RECURSIVE reAddLoop_global(_, _, _, _)
reAddLoop_global(e, markers, i, v) ==
  IF i < 1 THEN e
  ELSE reAddLoop_global(addMarker(e, markers[i].marker, TRUE, <<markers[i].isAdded>>,
                                  "null", TRUE, v),
                        markers, i - 1, v)

\* a loop of reAddMarkers_ that lets addMarker redraw the cluster
RECURSIVE reAddLoop_drawing(_, _, _, _)
reAddLoop_drawing(e, markers, i, v) ==
  IF i < 1 THEN e
  ELSE reAddLoop_drawing(addMarker(e, markers[i].marker, FALSE, <<markers[i].isAdded>>,
                                   "local", TRUE, v),
                         markers, i - 1, v)

\* a loop of reAddMarkers_ that re-adds the markers in the order of collection
RECURSIVE reAddLoop_forward(_, _, _, _)
reAddLoop_forward(e, markers, i, v) ==
  IF i < 1 THEN e
  ELSE LET m == markers[Len(markers) - i + 1]
       IN reAddLoop_forward(addMarker(e, m.marker, TRUE, <<m.isAdded>>, "local", TRUE, v),
                            markers, i - 1, v)

\* the loop of reAddMarkers_ from index i down
RECURSIVE reAddLoop(_, _, _, _)
reAddLoop(e, markers, i, v) ==
  IF i < 1 THEN e
  ELSE reAddLoop(addMarker(e, markers[i].marker, TRUE, <<markers[i].isAdded>>,
                           "local", TRUE, v),
                 markers, i - 1, v)

\* a reAddMarkers_ that places the pending markers only after a dissolution
reAddMarkers_onlyIfDissolved(e, markers, v) ==
  IF Len(markers) = 0 THEN [e EXCEPT !.local = <<>>]
  ELSE addLeftMarkers_(reAddLoop([e EXCEPT !.local = <<>>], markers, Len(markers), v), v)

reAddMarkers_(e, markers, v) ==
  addLeftMarkers_(reAddLoop([e EXCEPT !.local = <<>>], markers, Len(markers), v), v)

\* the loop of redraw_ over the array `clusters` from position i on
RECURSIVE redrawLoop(_, _, _, _)
redrawLoop(e, clusters, i, v) ==
  IF i > Len(clusters) THEN e
  ELSE LET g == clusters[i]
           r == Cluster_redraw_(e.clusters_[g], e, TRUE, v)
       IN redrawLoop([e EXCEPT !.clusters_ = [e.clusters_ EXCEPT ![g] = r.c],
                               !.layers = r.layers,
                               !.badges = r.badges,
                               !.redrawn = e.redrawn \cup {g}],
                     clusters, i + 1, v)

redraw_(e, v) == redrawLoop(e, getClustersInViewport_(e, v), 1, v)

RECURSIVE addMarkersLoop(_, _, _, _)
addMarkersLoop(e, markers, i, v) ==
  IF i > Len(markers) THEN e
  ELSE addMarkersLoop(addMarker(e, markers[i], TRUE, <<>>, "null", FALSE, v),
                      markers, i + 1, v)

\* an addMarkers without the closing redraw_ pass
addMarkers_noRedraw(e, markers, v) == addMarkersLoop(e, markers, 1, v)

addMarkers(e, markers, v) == redraw_(addMarkersLoop(e, markers, 1, v), v)

\* a scan that finds the cluster and leaves it in clusters_
spliceScan_none(live, cluster, j) == live

\* the loop of lines 364-368, which splices clusters_ while scanning it
\* forward: live is clusters_ as the sequence of the objects' original indices
RECURSIVE spliceScan(_, _, _)
spliceScan(live, cluster, j) ==
  IF j > Len(live) THEN live
  ELSE IF cluster = live[j] THEN spliceScan(SpliceOne(live, j), cluster, j + 1)
  ELSE spliceScan(live, cluster, j + 1)

\* the loop of lines 343-370 run by index over a list that shrinks under it:
\* after a dissolution the next cluster has moved into position i and is
\* passed over
RECURSIVE dissolveLoop_skips(_, _, _, _)
dissolveLoop_skips(s, clusters, i, v) ==
  IF i > Len(clusters) THEN s
  ELSE
    LET o == clusters[i]
        cluster == s.store[o]
    IN IF v.zoom # cluster.zoom_
       THEN LET mks == cluster.markers_
                r == Cluster_clearMarkers(cluster, s)
            IN dissolveLoop_skips(
                 [store |-> [s.store EXCEPT ![o] = r.c],
                  live |-> spliceScan(s.live, o, 1),
                  tmpMarkers |-> s.tmpMarkers \o
                                 [j \in 1..Len(mks) |-> [isAdded |-> FALSE,
                                                         marker |-> mks[j].marker]],
                  layers |-> r.layers,
                  badges |-> r.badges,
                  removed |-> s.removed + 1],
                 clusters, i + 2, v)
       ELSE dissolveLoop_skips(s, clusters, i + 1, v)

\* the loop of lines 343-370 without the zoom comparison of line 350: every
\* cluster of the snapshot is dissolved, whatever its zoom stamp
RECURSIVE dissolveLoop_all(_, _, _, _)
dissolveLoop_all(s, clusters, i, v) ==
  IF i > Len(clusters) THEN s
  ELSE
    LET o == clusters[i]
        cluster == s.store[o]
        mks == cluster.markers_
        r == Cluster_clearMarkers(cluster, s)
    IN dissolveLoop_all(
         [store |-> [s.store EXCEPT ![o] = r.c],
          live |-> spliceScan(s.live, o, 1),
          tmpMarkers |-> s.tmpMarkers \o
                         [j \in 1..Len(mks) |-> [isAdded |-> FALSE,
                                                 marker |-> mks[j].marker]],
          layers |-> r.layers,
          badges |-> r.badges,
          removed |-> s.removed + 1],
         clusters, i + 1, v)

\* the loop of lines 343-370 over the snapshot `clusters` from position i on.
\* s.store maps the original index of each Cluster object to its record,
\* s.live is clusters_, s.tmpMarkers the collected markers.
RECURSIVE dissolveLoop(_, _, _, _)
dissolveLoop(s, clusters, i, v) ==
  IF i > Len(clusters) THEN s
  ELSE
    LET o == clusters[i]
        cluster == s.store[o]
        oldZoom == cluster.zoom_
        curZoom == v.zoom
    IN IF curZoom # oldZoom
       THEN LET mks == cluster.markers_
                r == Cluster_clearMarkers(cluster, s)
            IN dissolveLoop(
                 [store |-> [s.store EXCEPT ![o] = r.c],
                  live |-> spliceScan(s.live, o, 1),
                  tmpMarkers |-> s.tmpMarkers \o
                                 [j \in 1..Len(mks) |-> [isAdded |-> FALSE,
                                                         marker |-> mks[j].marker]],
                  layers |-> r.layers,
                  badges |-> r.badges,
                  removed |-> s.removed + 1],
                 clusters, i + 1, v)
       ELSE dissolveLoop(s, clusters, i + 1, v)

\* lines 339-370 of resetViewport: the engine after the loop that dissolves
\* the stale clusters of the view, and the markers the loop collected
resetViewport_dissolve(e, v) ==
  LET clusters == getClustersInViewport_(e, v)
      s == dissolveLoop([store |-> e.clusters_,
                         live |-> [k \in 1..Len(e.clusters_) |-> k],
                         tmpMarkers |-> <<>>,
                         layers |-> e.layers,
                         badges |-> e.badges,
                         removed |-> 0],
                        clusters, 1, v)
  IN [e |-> [e EXCEPT !.clusters_ = [k \in 1..Len(s.live) |-> s.store[s.live[k]]],
                      !.layers = s.layers,
                      !.badges = s.badges,
                      !.removed = s.removed],
      tmpMarkers |-> s.tmpMarkers]

resetViewport(e, v) ==
  LET d == resetViewport_dissolve(e, v)
  IN redraw_(reAddMarkers_(d.e, d.tmpMarkers, v), v)

RECURSIVE clearLoop(_, _)
clearLoop(e, i) ==
  IF i > Len(e.clusters_) THEN e
  ELSE LET r == Cluster_clearMarkers(e.clusters_[i], e)
       IN clearLoop([e EXCEPT !.clusters_ = [e.clusters_ EXCEPT ![i] = r.c],
                              !.layers = r.layers,
                              !.badges = r.badges,
                              !.removed = e.removed + 1],
                    i + 1)

clearMarkers(e) ==
  [clearLoop(e, 1) EXCEPT !.clusters_ = <<>>, !.leftMarkers_ = <<>>]

\* the methods a Cluster object has (lines 425-583)
ClusterMethods ==
  { "getMarkers", "isInBounds", "getCenter", "addMarker", "removeMarker",
    "getCurrentZoom", "redraw_", "clearMarkers", "getTotalMarkers" }

\* the result of Cluster.removeMarker on cluster c with the map overlays ov
Cluster_removeMarker(c, ov, marker) ==
  LET hits == { k \in DOMAIN c.markers_ : c.markers_[k].marker = marker }
  IN IF hits = {}
     THEN [c |-> c, layers |-> ov.layers, found |-> FALSE]
     ELSE LET i == CHOOSE k \in hits : \A h \in hits : k <= h
          IN [c |-> [c EXCEPT !.markers_ = SpliceOne(c.markers_, i)],
              layers |-> IF c.markers_[i].isAdded THEN ov.layers \ {marker}
                         ELSE ov.layers,
              found |-> TRUE]

\* the loop of removeMarker from index i on; it calls clusters_[i].remove,
\* and calling a method the object does not have throws a TypeError
RECURSIVE removeLoop(_, _, _, _)
removeLoop(e, marker, i, v) ==
  IF i > Len(e.clusters_) THEN e
  ELSE IF "remove" \notin ClusterMethods THEN [e EXCEPT !.err = "TypeError"]
  ELSE LET r == Cluster_removeMarker(e.clusters_[i], e, marker)
       IN IF r.found
          THEN LET d == Cluster_redraw_(r.c, [layers |-> r.layers, badges |-> e.badges],
                                        FALSE, v)
               IN [e EXCEPT !.clusters_ = [e.clusters_ EXCEPT ![i] = d.c],
                            !.layers = d.layers,
                            !.badges = d.badges,
                            !.redrawn = IF d.drawn THEN e.redrawn \cup {i} ELSE e.redrawn,
                            !.removed = 1]
          ELSE removeLoop(e, marker, i + 1, v)

removeMarker(e, marker, v) == removeLoop(e, marker, 1, v)

\* the 'viewreset' handler every attached ClusterMarker_ registered in onAdd:
\* it runs ClusterMarker_.redraw
viewreset(e) ==
  [e EXCEPT !.clusters_ =
     [k \in 1..Len(e.clusters_) |->
        IF e.clusters_[k].clusterMarker_ = <<>> THEN e.clusters_[k]
        ELSE [e.clusters_[k] EXCEPT
                !.clusterMarker_ = <<ClusterMarker_redraw(e.clusters_[k].clusterMarker_[1])>>]]]

\* ---- the state machine ----
View == [zoom |-> mapZoom, bounds |-> mapBounds]

\* the engine record at the start of a public call
Engine ==
  [clusters_ |-> clusters_, leftMarkers_ |-> leftMarkers_, layers |-> layers,
   badges |-> badges, local |-> <<>>, redrawn |-> {}, created |-> 0, removed |-> 0,
   err |-> "none"]

\* non-empty sequences without repetition of at most n elements of S
DistinctSeqs(S, n) ==
  { q \in UNION { [1..k -> S] : k \in 1..n } :
      \A a, b \in DOMAIN q : a # b => q[a] # q[b] }

Commit(e) ==
  /\ clusters_' = e.clusters_
  /\ leftMarkers_' = e.leftMarkers_
  /\ layers' = e.layers
  /\ badges' = e.badges

Record(op, marker, e) ==
  last' = [op |-> op, marker |-> marker, redrawn |-> e.redrawn, created |-> e.created,
           removed |-> e.removed, err |-> e.err]

Init ==
  /\ clusters_ = <<>>
  /\ leftMarkers_ = <<>>
  /\ maxZoom_ \in MaxZoomOptions
  /\ mapZoom \in Zooms
  /\ mapBounds \in Viewports
  /\ layers = {}
  /\ badges = 0
  /\ registered = {}
  /\ last = [op |-> "new", marker |-> 0, redrawn |-> {}, created |-> 0, removed |-> 0,
             err |-> "none"]

\* a caller registers one new marker: addMarker(marker)
AddMarker ==
  \E marker \in Markers \ registered :
    LET e == addMarker(Engine, marker, FALSE, <<>>, "null", FALSE, View)
    IN /\ Commit(e)
       /\ registered' = registered \cup {marker}
       /\ Record("addMarker", marker, e)
       /\ UNCHANGED <<maxZoom_, mapZoom, mapBounds>>

\* a caller registers a batch of new markers
AddMarkers ==
  \E markers \in DistinctSeqs(Markers \ registered, MaxBatch) :
    LET e == addMarkers(Engine, markers, View)
    IN /\ Commit(e)
       /\ registered' = registered \cup Range(markers)
       /\ Record("addMarkers", 0, e)
       /\ UNCHANGED <<maxZoom_, mapZoom, mapBounds>>

\* a caller calls removeMarker(marker)
RemoveMarkerOf(marker) ==
  LET e == removeMarker(Engine, marker, View)
  IN /\ Commit(e)
     /\ registered' = IF e.removed = 1 THEN registered \ {marker} ELSE registered
     /\ Record("removeMarker", 0, e)
     /\ UNCHANGED <<maxZoom_, mapZoom, mapBounds>>

\* a caller removes a marker: one it registered, or one the engine never saw
RemoveMarker == \E marker \in Markers : RemoveMarkerOf(marker)

\* a caller calls resetViewport while the view is unchanged
ResetViewport ==
  LET e == resetViewport(Engine, View)
  IN /\ Commit(e)
     /\ Record("resetViewport", 0, e)
     /\ UNCHANGED <<maxZoom_, mapZoom, mapBounds, registered>>

\* the host map changes its view and fires 'viewreset' (always when the zoom
\* changed) and then 'moveend', whose listener calls resetViewport
MoveEnd ==
  \E z \in Zooms, b \in Viewports, fireViewreset \in BOOLEAN :
    /\ <<z, b>> # <<mapZoom, mapBounds>>
    /\ z # mapZoom => fireViewreset
    /\ LET e0 == IF fireViewreset THEN viewreset(Engine) ELSE Engine
           e == resetViewport(e0, [zoom |-> z, bounds |-> b])
       IN /\ Commit(e)
          /\ Record("moveend", 0, e)
    /\ mapZoom' = z
    /\ mapBounds' = b
    /\ UNCHANGED <<maxZoom_, registered>>

\* a caller clears the engine
ClearMarkers ==
  LET e == clearMarkers(Engine)
  IN /\ Commit(e)
     /\ registered' = {}
     /\ Record("clearMarkers", 0, e)
     /\ UNCHANGED <<maxZoom_, mapZoom, mapBounds>>

Next ==
  \/ AddMarker
  \/ AddMarkers
  \/ RemoveMarker
  \/ ResetViewport
  \/ MoveEnd
  \/ ClearMarkers

Spec == Init /\ [][Next]_vars

\* ---- shape of the state ----
TypeOK ==
  /\ \A k \in DOMAIN clusters_ :
       /\ Cluster_members(clusters_[k]) \subseteq Markers
       /\ clusters_[k].zoom_ \in Zooms
  /\ Range(leftMarkers_) \subseteq Markers
  /\ layers \subseteq Markers
  /\ badges \in 0..NumMarkers
  /\ registered \subseteq Markers

\* ---- vocabulary of the properties ----
Abs(x) == IF x < 0 THEN 0 - x ELSE x

\* the view after a step
ViewNext == [zoom |-> mapZoom', bounds |-> mapBounds']

\* the step is a resetViewport pass: called directly, or by the moveend listener
ResetStep == last'.op \in {"resetViewport", "moveend"}

\* number of times marker m occurs as a member of a cluster of cls
TimesInClusters(cls, m) ==
  Cardinality({ p \in UNION { { <<k, i>> : i \in DOMAIN cls[k].markers_ } : k \in DOMAIN cls } :
                  cls[p[1]].markers_[p[2]].marker = m })

\* number of times marker m occurs in the pending list left
TimesPending(left, m) == Cardinality({ i \in DOMAIN left : left[i] = m })

InSomeCluster(cls, m) == \E k \in DOMAIN cls : m \in Cluster_members(cls[k])

\* marker m lies in the square of half-size gridSize_ around the center of c
\* in the pixel space of zoom z
Near(m, c, z) ==
  LET p == latLngToLayerPoint(LatLng(m), z)
      q == latLngToLayerPoint(c.center_[1], z)
  IN Abs(p.x - q.x) <= gridSize_ /\ Abs(p.y - q.y) <= gridSize_

\* cluster c intersects the view v with a zoom stamp that is not v's zoom
StaleInView(c, v) == c.zoom_ # v.zoom /\ Cluster_isInBounds(c, v)

\* the max zoom in force: the configured one, else the host map's
MaxZoomInForce == IF maxZoom_ = <<>> THEN MapMaxZoom ELSE maxZoom_[1]

BadgeVisible(c) == c.clusterMarker_ # <<>> /\ ~c.clusterMarker_[1].hidden

\* ---- C1 ----
\* C1: every registered and not removed marker is in exactly one place: it
\* occurs once in exactly one cluster of clusters_ and not in leftMarkers_, or
\* once in leftMarkers_ and in no cluster.
C1_Partition ==
  \A m \in registered :
    TimesInClusters(clusters_, m) + TimesPending(leftMarkers_, m) = 1

\* a pass that dissolved a cluster ended with every marker registered, some
\* of them clustered together
C1_Witness ==
  /\ last.op = "moveend"
  /\ last.removed >= 1
  /\ registered = Markers
  /\ \E k \in DOMAIN clusters_ : Len(clusters_[k].markers_) >= 2

\* ---- C2 ----
\* C2: addMarker of a marker inside the viewport: if the marker is within
\* gridSize_ pixels (inclusive) on both axes of the center of some non-empty
\* cluster, it joins one of these clusters and no cluster is created; if not,
\* exactly one cluster is created, with the marker as its sole member, and the
\* number of clusters grows by one.
C2_GridTest ==
  [][ (last'.op = "addMarker" /\ BoundsContains(mapBounds, LatLng(last'.marker))) =>
        LET m == last'.marker
            near == { k \in DOMAIN clusters_ :
                        clusters_[k].markers_ # <<>> /\ Near(m, clusters_[k], mapZoom) }
        IN /\ near # {} =>
                /\ Len(clusters_') = Len(clusters_)
                /\ \E k \in near :
                     Cluster_members(clusters_'[k]) = Cluster_members(clusters_[k]) \cup {m}
           /\ near = {} =>
                /\ Len(clusters_') = Len(clusters_) + 1
                /\ Len(clusters_'[Len(clusters_')].markers_) = 1
                /\ clusters_'[Len(clusters_')].markers_[1].marker = m
                /\ ~InSomeCluster(SubSeq(clusters_', 1, Len(clusters_)), m)
    ]_vars

\* a marker joined a cluster whose center is exactly gridSize_ pixels away
C2_Witness ==
  /\ last.op = "addMarker"
  /\ last.created = 0
  /\ \E k \in DOMAIN clusters_ :
       /\ Len(clusters_[k].markers_) >= 2
       /\ clusters_[k].markers_[Len(clusters_[k].markers_)].marker = last.marker
       /\ Abs(latLngToLayerPoint(LatLng(last.marker), mapZoom).x
              - latLngToLayerPoint(clusters_[k].center_[1], mapZoom).x) = gridSize_

\* ---- C3 ----
\* C3: after a resetViewport pass, the clusters that were in clusters_ before
\* the pass and are still in it are exactly those that did not intersect the
\* viewport with a stale zoom stamp (none of the stale ones is skipped), and
\* every cluster of clusters_ that intersects the viewport is stamped with
\* the map's zoom.
C3_StaleDissolved ==
  [][ ResetStep =>
        \A v \in {ViewNext} : \A next \in {clusters_'} :
        \A kept \in {SelectSeq(clusters_, LAMBDA c : ~StaleInView(c, v))} :
        \A survivors \in {SubSeq(next, 1, Len(next) - last'.created)} :
           /\ Len(survivors) = Len(kept)
           /\ \A j \in DOMAIN kept :
                /\ survivors[j].center_ = kept[j].center_
                /\ Cluster_members(kept[j]) \subseteq Cluster_members(survivors[j])
                /\ Cluster_members(kept[j]) # {}
           /\ \A j \in DOMAIN next : ~StaleInView(next[j], v)
    ]_vars

\* one pass dissolved a stale cluster in view and left another cluster, out
\* of view, in place
C3_Witness ==
  /\ last.op = "moveend"
  /\ last.removed >= 1
  /\ Len(clusters_) > last.created

\* ---- C4 ----
\* C4: addMarker of a point outside the map's bounds appends the point to
\* leftMarkers_ and changes nothing else: clusters, overlays, getTotalMarkers
\* and getTotalClusters are as before and the point is in no cluster; the
\* next resetViewport pass whose view contains a pending point makes the
\* point a member of a cluster.
C4_Deferral ==
  [][ /\ (last'.op = "addMarker" /\ ~BoundsContains(mapBounds, LatLng(last'.marker))) =>
           /\ leftMarkers_' = Append(leftMarkers_, last'.marker)
           /\ clusters_' = clusters_
           /\ layers' = layers
           /\ badges' = badges
           /\ getTotalMarkersOf(clusters_') = getTotalMarkers
           /\ Len(clusters_') = getTotalClusters
           /\ ~InSomeCluster(clusters_', last'.marker)
      /\ ResetStep =>
           \A m \in Range(leftMarkers_) :
             BoundsContains(mapBounds', LatLng(m)) => InSomeCluster(clusters_', m)
    ]_vars

\* a point was deferred while the engine holds clusters
C4_Witness ==
  /\ last.op = "addMarker"
  /\ leftMarkers_ # <<>>
  /\ leftMarkers_[Len(leftMarkers_)] = last.marker
  /\ clusters_ # <<>>

\* ---- C5 ----
\* C5: after every resetViewport pass leftMarkers_ is empty and every marker
\* that was pending before the pass is a member, once, of exactly one cluster.
C5_PendingDrained ==
  [][ ResetStep =>
        /\ leftMarkers_' = <<>>
        /\ \A m \in Range(leftMarkers_) : TimesInClusters(clusters_', m) = 1
    ]_vars

\* a pass that dissolved no cluster created clusters: they hold markers that
\* were pending
C5_Witness ==
  /\ last.op = "resetViewport"
  /\ last.removed = 0
  /\ last.created >= 1
  /\ leftMarkers_ = <<>>

\* ---- C6 ----
\* C6: a cluster that was redrawn by the last operation shows, when it has
\* one member, that member's marker on the map and no visible badge; when it
\* has two or more members and the zoom is below the max zoom, a visible
\* badge whose count is the number of members, and no member marker on the map.
C6_DisplayMode ==
  \A k \in last.redrawn :
    LET c == clusters_[k]
        n == Len(c.markers_)
    IN /\ n = 1 => c.markers_[1].marker \in layers /\ ~BadgeVisible(c)
       /\ (n >= 2 /\ mapZoom < MaxZoomInForce) =>
            /\ BadgeVisible(c)
            /\ c.clusterMarker_[1].count_ = n
            /\ Cluster_members(c) \cap layers = {}

\* addMarker grew a cluster from two to three members and its badge followed
C6_Witness ==
  /\ last.op = "addMarker"
  /\ \E k \in last.redrawn :
       /\ Len(clusters_[k].markers_) = 3
       /\ mapZoom < MaxZoomInForce
       /\ BadgeVisible(clusters_[k])

\* ---- C7 ----
\* C7: removeMarker of a member of some cluster removes it from the first
\* cluster that contains it, leaves the other members and clusters as they
\* are, detaches the marker from the map and lowers getTotalMarkers by one.
C7_RemoveMember ==
  [][ \A m \in Markers :
        (RemoveMarkerOf(m) /\ InSomeCluster(clusters_, m)) =>
        LET first == CHOOSE k \in DOMAIN clusters_ :
                       /\ m \in Cluster_members(clusters_[k])
                       /\ \A h \in 1..(k - 1) : m \notin Cluster_members(clusters_[h])
        IN /\ Len(clusters_') = Len(clusters_)
           /\ Cluster_members(clusters_'[first]) = Cluster_members(clusters_[first]) \ {m}
           /\ \A k \in DOMAIN clusters_ \ {first} :
                Cluster_members(clusters_'[k]) = Cluster_members(clusters_[k])
           /\ first \in last'.redrawn \/ ~Cluster_isInBounds(clusters_'[first], ViewNext)
           /\ m \notin layers'
           /\ getTotalMarkersOf(clusters_') = getTotalMarkers - 1
    ]_vars

\* ---- C8 ----
\* C8: removeMarker of a point that is in no cluster completes without a
\* failure and changes nothing.
C8_RemoveMiss ==
  [][ \A m \in Markers :
        (RemoveMarkerOf(m) /\ ~InSomeCluster(clusters_, m)) =>
          /\ last'.err = "none"
          /\ UNCHANGED <<clusters_, leftMarkers_, layers, badges>>
    ]_vars

\* ---- C9 ----
\* C9: after clearMarkers there is no cluster and no pending marker, the
\* totals are 0 and neither a marker nor a badge is attached to the map; in
\* every state each marker attached to the map is a member flagged isAdded.
C9_Cleared ==
  /\ last.op = "clearMarkers" =>
       /\ clusters_ = <<>>
       /\ leftMarkers_ = <<>>
       /\ getTotalMarkers = 0
       /\ getTotalClusters = 0
       /\ layers = {}
       /\ badges = 0
  /\ \A m \in layers :
       \E k \in DOMAIN clusters_ : \E i \in DOMAIN clusters_[k].markers_ :
         clusters_[k].markers_[i] = [marker |-> m, isAdded |-> TRUE]

\* clearMarkers cleared two or more clusters
C9_Witness ==
  /\ last.op = "clearMarkers"
  /\ last.removed >= 2
  /\ layers = {}

\* ---- C10 ----
\* C10: a cluster redrawn by the last operation while the map's zoom is at or
\* above the max zoom in force has every member's marker on the map, every
\* member flagged isAdded and no visible badge.
C10_MaxZoomRule ==
  \A k \in last.redrawn :
    mapZoom >= MaxZoomInForce =>
      /\ Cluster_members(clusters_[k]) \subseteq layers
      /\ \A i \in DOMAIN clusters_[k].markers_ : clusters_[k].markers_[i].isAdded
      /\ ~BadgeVisible(clusters_[k])

\* a cluster of several members was redrawn at the host map's maximum zoom
\* with no maxZoom configured
C10_Witness ==
  /\ maxZoom_ = <<>>
  /\ mapZoom = MapMaxZoom
  /\ \E k \in last.redrawn :
       /\ Len(clusters_[k].markers_) >= 2
       /\ Cluster_members(clusters_[k]) \subseteq layers

\* ---- C11 ----
\* the views the host map can take
AllViews == { [zoom |-> z, bounds |-> b] : z \in Zooms, b \in Viewports }

\* what the map shows of cluster c after a redraw_ with result r: the attached
\* markers, the number of attached badges, and the badge's existence,
\* visibility and count
Visual(r) == <<r.layers, r.badges, r.c.clusterMarker_>>

\* redraw_ applied to the result r of a previous redraw_
RedrawAgain(r, isForce, v) ==
  Cluster_redraw_(r.c, [layers |-> r.layers, badges |-> r.badges], isForce, v)

\* C11: for every cluster of a reachable state and every view, a second
\* redraw_ right after a first one leaves the attached markers, the badge's
\* existence, visibility and count as the first one left them; and the number
\* of badges attached to the map is the number of clusters that have created
\* one (no cluster ever attaches a second badge).
C11_IdempotentRedraw ==
  /\ \A k \in DOMAIN clusters_ : \A v \in AllViews : \A isForce \in BOOLEAN :
       LET r1 == Cluster_redraw_(clusters_[k], [layers |-> layers, badges |-> badges],
                                 isForce, v)
       IN Visual(RedrawAgain(r1, isForce, v)) = Visual(r1)
  /\ badges = Cardinality({ k \in DOMAIN clusters_ : clusters_[k].clusterMarker_ # <<>> })

\* a cluster of two or more members placed from the pending list and not yet
\* drawn: a forced redraw_ in the current view creates its badge, and a second
\* one changes nothing more
C11_Witness ==
  \E k \in DOMAIN clusters_ :
    LET r1 == Cluster_redraw_(clusters_[k], [layers |-> layers, badges |-> badges],
                              TRUE, View)
    IN /\ Len(clusters_[k].markers_) >= 2
       /\ clusters_[k].clusterMarker_ = <<>>
       /\ r1.badges = badges + 1
       /\ Visual(RedrawAgain(r1, TRUE, View)) = Visual(r1)

\* ---- C12 ----
\* markers a and b are within gridSize_ pixels of each other on both axes in
\* the pixel space of zoom z
PairNear(a, b, z) ==
  LET p == latLngToLayerPoint(LatLng(a), z)
      q == latLngToLayerPoint(LatLng(b), z)
  IN Abs(p.x - q.x) <= gridSize_ /\ Abs(p.y - q.y) <= gridSize_

\* the positions in clusters_' of the clusters created by the step
CreatedNext == (Len(clusters_') - last'.created + 1)..Len(clusters_')

\* C12: when exactly one cluster intersects the new view with a stale zoom
\* stamp and it has 2 or more members, a resetViewport pass removes it from
\* clusters_ and places each of its members in a cluster created by the pass;
\* when the members are pairwise within gridSize_ at the new zoom, exactly one
\* cluster holds all of them afterwards, it was created by the pass and it is
\* stamped with the new zoom.
C12_DissolveAndReform ==
  [][ ResetStep =>
        LET stale == { k \in DOMAIN clusters_ : StaleInView(clusters_[k], ViewNext) }
        IN \A k \in stale :
             (stale = {k} /\ Len(clusters_[k].markers_) >= 2) =>
               LET ms == Cluster_members(clusters_[k])
                   holders == { h \in DOMAIN clusters_' :
                                  ms \subseteq Cluster_members(clusters_'[h]) }
               IN /\ last'.removed = 1
                  /\ Len(clusters_') = Len(clusters_) - 1 + last'.created
                  /\ \A m \in ms : \E h \in CreatedNext :
                       m \in Cluster_members(clusters_'[h])
                  /\ (\A a, b \in ms : PairNear(a, b, mapZoom')) =>
                       /\ Cardinality(holders) = 1
                       /\ holders \subseteq CreatedNext
                       /\ \A h \in holders : clusters_'[h].zoom_ = mapZoom'
    ]_vars

\* a zoom change dissolved one cluster and its members formed one new cluster
\* of two or more members, stamped with the new zoom
C12_Witness ==
  /\ last.op = "moveend"
  /\ last.removed = 1
  /\ last.created = 1
  /\ clusters_ # <<>>
  /\ Len(clusters_[Len(clusters_)].markers_) >= 2
  /\ clusters_[Len(clusters_)].zoom_ = mapZoom
  /\ leftMarkers_ = <<>>

\* ---- C13 ----
\* Cluster.isInBounds on its own: a cluster is constructed under some view and
\* given at most one marker, the host map changes its view, and isInBounds is
\* called with the map's bounds.  The bounds include those of a map whose
\* container has no width, or no size at all.
ProbeBounds ==
  Viewports \cup
    { [sw |-> [lng |-> 100, lat |-> 0 - 50], ne |-> [lng |-> 100, lat |-> 150]],
      [sw |-> [lng |-> 100, lat |-> 100], ne |-> [lng |-> 100, lat |-> 100]] }

ProbeInit ==
  /\ clusters_ = <<>>
  /\ leftMarkers_ = <<>>
  /\ maxZoom_ = <<>>
  /\ mapZoom \in Zooms
  /\ mapBounds \in ProbeBounds
  /\ layers = {}
  /\ badges = 0
  /\ registered = {}
  /\ last = [op |-> "new", result |-> FALSE]

\* new Cluster(...), left empty or given its first marker
ProbeCreate ==
  /\ \E ms \in { <<>> } \cup { <<m>> : m \in Markers } :
       clusters_' = << IF ms = <<>> THEN Cluster_new(View)
                       ELSE Cluster_addMarker(Cluster_new(View),
                                              [isAdded |-> FALSE, marker |-> ms[1]]) >>
  /\ last' = [op |-> "new Cluster", result |-> FALSE]
  /\ UNCHANGED <<leftMarkers_, maxZoom_, mapZoom, mapBounds, layers, badges, registered>>

\* the host map changes its view
ProbeMove ==
  /\ \E z \in Zooms, b \in ProbeBounds :
       /\ <<z, b>> # <<mapZoom, mapBounds>>
       /\ mapZoom' = z
       /\ mapBounds' = b
  /\ last' = [op |-> "move", result |-> FALSE]
  /\ UNCHANGED <<clusters_, leftMarkers_, maxZoom_, layers, badges, registered>>

\* cluster.isInBounds(map.getBounds())
ProbeIsInBounds ==
  /\ clusters_ # <<>>
  /\ last' = [op |-> "isInBounds", result |-> Cluster_isInBounds(clusters_[1], View)]
  /\ UNCHANGED <<clusters_, leftMarkers_, maxZoom_, mapZoom, mapBounds, layers, badges,
                 registered>>

ProbeNext ==
  \/ ProbeCreate
  \/ ProbeMove
  \/ ProbeIsInBounds

SpecProbe == ProbeInit /\ [][ProbeNext]_vars

\* the overlap, on the x axis and on the y axis, of the bounds of view v in
\* its pixel space with the square around the center of c whose half-size is
\* 2^(v.zoom - c.zoom_) * gridSize_; lengths are in units of 2^-MaxZoomLevel
\* pixel, which makes the half-size a whole number
XOverlap(c, v) ==
  LET u == Pow2(MaxZoomLevel)
      half == Pow2(v.zoom - c.zoom_ + MaxZoomLevel) * gridSize_
      cx == u * latLngToLayerPoint(c.center_[1], v.zoom).x
  IN /\ cx + half >= u * latLngToLayerPoint(v.bounds.sw, v.zoom).x
     /\ cx - half <= u * latLngToLayerPoint(v.bounds.ne, v.zoom).x

YOverlap(c, v) ==
  LET u == Pow2(MaxZoomLevel)
      half == Pow2(v.zoom - c.zoom_ + MaxZoomLevel) * gridSize_
      cy == u * latLngToLayerPoint(c.center_[1], v.zoom).y
  IN /\ cy + half >= u * latLngToLayerPoint(v.bounds.ne, v.zoom).y
     /\ cy - half <= u * latLngToLayerPoint(v.bounds.sw, v.zoom).y

RECURSIVE addOneByOne(_, _, _, _)
addOneByOne(e, markers, i, v) ==
  IF i > Len(markers) THEN e
  ELSE addOneByOne(addMarker(e, markers[i], FALSE, <<>>, "null", FALSE, v),
                   markers, i + 1, v)

\* the lists of new markers a caller may hand over in one call
Batches == { <<>> } \cup DistinctSeqs(Markers \ registered, MaxBatch + 1)

\* what a caller can observe of engine e: each cluster's center, members and
\* visible badge count (0 when no badge shows), the pending list and the
\* markers attached to the map
Observable(e) ==
  [clusters |-> [k \in 1..Len(e.clusters_) |->
                   [center |-> e.clusters_[k].center_,
                    members |-> [i \in 1..Len(e.clusters_[k].markers_) |->
                                   e.clusters_[k].markers_[i].marker],
                    badge |-> IF BadgeVisible(e.clusters_[k])
                              THEN e.clusters_[k].clusterMarker_[1].count_ ELSE 0]],
   pending |-> e.leftMarkers_,
   attached |-> e.layers]

JsUndefined == [t |-> "undefined"]

JsNull == [t |-> "null"]

JsNumber(n) == [t |-> "number", n |-> n, nan |-> FALSE]

JsNaN == [t |-> "number", n |-> 0, nan |-> TRUE]

typeof(x) ==
  CASE x.t \in {"null", "array", "object"} -> "object"
    [] OTHER -> x.t

\* x >= 0 in place of x > 0
GreaterThanZero_orEqual(x) == ~x.nan /\ x.n >= 0

\* x > 0 for a value whose typeof is "number" (a comparison with NaN is false)
GreaterThanZero(x) == ~x.nan /\ x.n > 0

\* x.length !== 0 for a non-null value whose typeof is "object" (a plain
\* object has no length, and undefined !== 0)
LengthIsNotZero(x) == IF x.t = "array" THEN x.len # 0 ELSE TRUE

\* the sizes of the built-in styles (line 85) and the styles pushed by the
\* loop of lines 91-97
sizes == <<53, 56, 66, 78, 90>>

BuiltinStyles == [i \in 1..5 |-> [height |-> sizes[i], width |-> sizes[i]]]

GridSizeInputs ==
  { JsUndefined, JsNull, JsNaN, JsNumber(0), JsNumber(0 - 5), JsNumber(60),
    [t |-> "string", s |-> "60"] }

MaxZoomInputs == { JsUndefined, JsNull, JsNumber(1), [t |-> "string", s |-> "1"] }

StylesInputs ==
  { JsUndefined, JsNull, JsNumber(3), [t |-> "string", s |-> "m1.png"],
    [t |-> "array", len |-> 0], [t |-> "array", len |-> 2] }

OptionsInputs ==
  { JsUndefined, JsNull, JsNumber(7) } \cup
  { [t |-> "object", gridSize |-> g, maxZoom |-> z, styles |-> s] :
      g \in GridSizeInputs, z \in MaxZoomInputs, s \in StylesInputs }

\* lines 105-115 with the defaults of lines 82-97; err is "none" or the
\* exception that ended the constructor.  No statement of these lines can
\* throw: typeof never does, and a property is read only from a non-null
\* object.
LeafClusterer_options(opt_opts) ==
  LET isObject == typeof(opt_opts) = "object" /\ opt_opts # JsNull
  IN [gridSize_ |-> IF /\ isObject
                       /\ typeof(opt_opts.gridSize) = "number"
                       /\ GreaterThanZero(opt_opts.gridSize)
                    THEN opt_opts.gridSize.n ELSE gridSize_,
      maxZoom_ |-> IF isObject /\ typeof(opt_opts.maxZoom) = "number"
                   THEN <<opt_opts.maxZoom>> ELSE <<>>,
      styles_ |-> IF /\ isObject
                     /\ typeof(opt_opts.styles) = "object"
                     /\ opt_opts.styles # JsNull
                     /\ LengthIsNotZero(opt_opts.styles)
                  THEN <<opt_opts.styles>> ELSE BuiltinStyles,
      err |-> "none"]

ConfigInit ==
  /\ clusters_ = <<>>
  /\ leftMarkers_ = <<>>
  /\ maxZoom_ = <<>>
  /\ mapZoom = 0
  /\ mapBounds \in Viewports
  /\ layers = {}
  /\ badges = 0
  /\ registered = {}
  /\ last = [op |-> "none"]

\* new LeafClusterer(map, null, opt_opts)
Construct ==
  /\ \E opt_opts \in OptionsInputs :
       last' = [op |-> "new", opt_opts |-> opt_opts,
                conf |-> LeafClusterer_options(opt_opts)]
  /\ maxZoom_' = last'.conf.maxZoom_
  /\ UNCHANGED <<clusters_, leftMarkers_, mapZoom, mapBounds, layers, badges, registered>>

ConfigNext == Construct

SpecConfig == ConfigInit /\ [][ConfigNext]_vars

\* the option named f of the options value o, undefined when o has none
OptionOf(o, f) == IF o.t = "object" THEN o[f] ELSE JsUndefined

Qualifying(cls, m, z) ==
  { k \in DOMAIN cls : cls[k].markers_ # <<>> /\ cls[k].center_ # <<>> /\ Near(m, cls[k], z) }

\* C16: when addMarker places a marker that lies in the grid square of more
\* than one non-empty cluster of clusters_, the marker joins the one of them
\* that is last in clusters_ (the most recently inserted), and every other
\* cluster and the pending list stay as they are.
C16_LastInsertedWins ==
  [][ (last'.op = "addMarker" /\ BoundsContains(mapBounds, LatLng(last'.marker))) =>
        LET m == last'.marker
            q == Qualifying(clusters_, m, mapZoom)
        IN Cardinality(q) >= 2 =>
             LET g == CHOOSE k \in q : \A h \in q : h <= k
             IN /\ Len(clusters_') = Len(clusters_)
                /\ Cluster_members(clusters_'[g]) = Cluster_members(clusters_[g]) \cup {m}
                /\ \A k \in DOMAIN clusters_ \ {g} : clusters_'[k] = clusters_[k]
                /\ leftMarkers_' = leftMarkers_
    ]_vars

\* addMarker placed a marker that lies in the grid squares of two clusters
\* into the later one
C16_Witness ==
  /\ last.op = "addMarker"
  /\ \E k1, k2 \in DOMAIN clusters_ :
       /\ k1 < k2
       /\ {k1, k2} \subseteq Qualifying(clusters_, last.marker, mapZoom)
       /\ last.marker \in Cluster_members(clusters_[k2])
       /\ last.marker \notin Cluster_members(clusters_[k1])
       /\ Len(clusters_[k2].markers_) >= 2

\* ---- C17 ----
\* C17: every cluster of clusters_ has at least one member and a center, and
\* removeMarker of the only member of a cluster takes the marker out and
\* removes the emptied cluster from clusters_ (so that no later addMarker can
\* match it).
C17_NoEmptyCluster ==
  [][ /\ \A k \in DOMAIN clusters_' :
           clusters_'[k].markers_ # <<>> /\ clusters_'[k].center_ # <<>>
      /\ \A m \in Markers :
           (RemoveMarkerOf(m) /\ \E k \in DOMAIN clusters_ :
                                   Cluster_members(clusters_[k]) = {m}) =>
             /\ ~InSomeCluster(clusters_', m)
             /\ Len(clusters_') = Len(clusters_) - 1
    ]_vars

\* ---- C18 ----
\* C18: in every state the isAdded flag of each member record of each cluster
\* is true exactly when the member's marker is attached to the map; so the
\* members of a cluster redrawn in aggregate mode are all flagged false.
C18_FlagMatchesMap ==
  \A k \in DOMAIN clusters_ : \A i \in DOMAIN clusters_[k].markers_ :
    clusters_[k].markers_[i].isAdded <=> clusters_[k].markers_[i].marker \in layers

\* ---- C19 ----
\* C19: a resetViewport pass dissolves exactly the clusters that intersect
\* the view with a zoom stamp other than the map's zoom; each other cluster
\* stays in clusters_, in the same relative order, with the same center and
\* with its member list as a prefix of its new member list, and the members
\* it gained were all pending before the pass.
C19_OthersUntouched ==
  [][ ResetStep =>
        \A v \in {ViewNext} : \A next \in {clusters_'} :
        \A kept \in {SelectSeq(clusters_, LAMBDA c : ~StaleInView(c, v))} :
        \A n \in {Len(next) - last'.created} :
           /\ last'.removed = Len(clusters_) - Len(kept)
           /\ n = Len(kept)
           /\ \A j \in 1..n :
                LET old == kept[j].markers_
                    new == next[j].markers_
                IN /\ next[j].center_ = kept[j].center_
                   /\ Len(new) >= Len(old)
                   /\ \A i \in 1..Len(old) : new[i].marker = old[i].marker
                   /\ \A i \in (Len(old) + 1)..Len(new) :
                        \E q \in DOMAIN leftMarkers_ : leftMarkers_[q] = new[i].marker
    ]_vars

\* a zoom change dissolved a cluster in view while a cluster out of view kept
\* its place, its members and its old zoom stamp
C19_Witness ==
  /\ last.op = "moveend"
  /\ last.removed >= 1
  /\ \E k \in 1..(Len(clusters_) - last.created) :
       /\ clusters_[k].zoom_ # mapZoom
       /\ clusters_[k].markers_ # <<>>
       /\ ~Cluster_isInBounds(clusters_[k], View)

\* ---- C20 ----
\* C20: in a resetViewport pass every member of a dissolved cluster ends up
\* in a cluster created by the pass and in no cluster that survived it, also
\* when it lies in a surviving cluster's grid square; a formerly pending
\* marker that lies in a surviving cluster's grid square, in contrast, joins
\* a cluster that exists and founds no new one.
C20_ReplacedApartFromSurvivors ==
  [][ ResetStep =>
        LET kept == SelectSeq(clusters_, LAMBDA c : ~StaleInView(c, ViewNext))
            n == Len(clusters_') - last'.created
            collected == UNION { Cluster_members(clusters_[k]) :
                                   k \in { j \in DOMAIN clusters_ :
                                             StaleInView(clusters_[j], ViewNext) } }
        IN /\ \A m \in collected :
                /\ \E h \in CreatedNext : m \in Cluster_members(clusters_'[h])
                /\ \A j \in 1..n : m \notin Cluster_members(clusters_'[j])
           /\ \A p \in Range(leftMarkers_) :
                (\E j \in DOMAIN kept : Near(p, kept[j], mapZoom')) =>
                  \A h \in CreatedNext : clusters_'[h].markers_[1].marker # p
    ]_vars

\* a pass left a cluster in place and created another one whose founder,
\* a member of a dissolved cluster, lies in the surviving cluster's grid square
C20_Witness ==
  /\ last.op = "moveend"
  /\ last.removed >= 1
  /\ \E k \in 1..(Len(clusters_) - last.created) :
       \E h \in (Len(clusters_) - last.created + 1)..Len(clusters_) :
         /\ clusters_[k].markers_ # <<>>
         /\ Near(clusters_[h].markers_[1].marker, clusters_[k], mapZoom)

\* ---- C21 ----
\* the markers of the member list of cluster c, in member order
MemberSeq(c) == [i \in DOMAIN c.markers_ |-> c.markers_[i].marker]

\* e is e0 with marker m placed: one cluster of e0 gained m as its last
\* member, or one cluster with m as its only member was appended to clusters_
\* (and to the candidate array when addMarker was given one); every other
\* cluster, the order of clusters_ and the pending list are those of e0
PlacedOnce(e0, e, m, opt_clusters) ==
  LET old == e0.clusters_
      new == e.clusters_
  IN /\ e.leftMarkers_ = e0.leftMarkers_
     /\ \/ /\ Len(new) = Len(old)
           /\ e.created = e0.created
           /\ e.local = e0.local
           /\ \E g \in DOMAIN old :
                /\ MemberSeq(new[g]) = Append(MemberSeq(old[g]), m)
                /\ new[g].center_ = old[g].center_
                /\ \A k \in DOMAIN old \ {g} : new[k] = old[k]
        \/ /\ Len(new) = Len(old) + 1
           /\ e.created = e0.created + 1
           /\ e.local = IF opt_clusters = "local" THEN Append(e0.local, Len(new))
                        ELSE e0.local
           /\ MemberSeq(new[Len(new)]) = <<m>>
           /\ \A k \in DOMAIN old : new[k] = old[k]

\* C21: addMarker of a marker that passes or bypasses the viewport check
\* changes exactly one cluster: one cluster gains the marker as its last
\* member, or one cluster with the marker as its only member is appended to
\* clusters_ (and to the candidate array, when one was given); the other
\* clusters, the order of clusters_ and the pending list are unchanged.  This
\* holds of the call a caller made and of every form of the call the engine
\* makes itself (redraw suppressed, candidate array given, check bypassed).
C21_OneClusterChanges ==
  [][ last'.op = "addMarker" =>
        LET m == last'.marker
            all == [k \in 1..Len(clusters_) |-> k]
        IN /\ BoundsContains(mapBounds, LatLng(m)) =>
                PlacedOnce(Engine,
                           [Engine EXCEPT !.clusters_ = clusters_',
                                          !.leftMarkers_ = leftMarkers_',
                                          !.created = last'.created],
                           m, "null")
           /\ \A opt_isNodraw, opt_isNoCheck \in BOOLEAN :
                \A opt_clusters \in {"null", "local"} : \A local \in {<<>>, all} :
                  (opt_isNoCheck \/ isMarkerInViewport_(m, View)) =>
                    LET e0 == [Engine EXCEPT !.local = local]
                    IN PlacedOnce(e0,
                                  addMarker(e0, m, opt_isNodraw, <<>>, opt_clusters,
                                            opt_isNoCheck, View),
                                  m, opt_clusters)
    ]_vars

\* addMarker made a marker the last member of a cluster that had members
\* while clusters_ holds another cluster
C21_Witness ==
  /\ last.op = "addMarker"
  /\ last.created = 0
  /\ Len(clusters_) >= 2
  /\ \E k \in DOMAIN clusters_ :
       /\ Len(clusters_[k].markers_) >= 2
       /\ clusters_[k].markers_[Len(clusters_[k].markers_)].marker = last.marker

\* ---- C22 ----
\* C22: the center of every cluster of clusters_ is the position of the first
\* marker added to it; a cluster that stays in clusters_ over an addMarker, an
\* addMarkers or a resetViewport pass keeps its center, whatever members it
\* gains; and no redraw_ changes a center.
C22_CenterFixed ==
  [][ \A next \in {clusters_'} : \A v \in {ViewNext} :
      \A ov \in {[layers |-> layers', badges |-> badges']} :
        /\ \A k \in DOMAIN next :
             /\ next[k].markers_ # <<>> =>
                  next[k].center_ = <<LatLng(next[k].markers_[1].marker)>>
             /\ \A isForce \in BOOLEAN :
                  Cluster_redraw_(next[k], ov, isForce, v).c.center_ = next[k].center_
        /\ last'.op \in {"addMarker", "addMarkers"} =>
             /\ Len(next) >= Len(clusters_)
             /\ \A k \in DOMAIN clusters_ : next[k].center_ = clusters_[k].center_
        /\ ResetStep =>
             LET kept == SelectSeq(clusters_, LAMBDA c : ~StaleInView(c, v))
             IN /\ Len(next) >= Len(kept)
                /\ \A j \in DOMAIN kept : next[j].center_ = kept[j].center_
    ]_vars

\* a cluster was redrawn after it gained a member whose position is not the
\* cluster's center
C22_Witness ==
  /\ last.op = "addMarker"
  /\ \E k \in last.redrawn :
       LET n == Len(clusters_[k].markers_)
       IN /\ n >= 2
          /\ clusters_[k].markers_[n].marker = last.marker
          /\ clusters_[k].center_ # <<LatLng(last.marker)>>

\* ---- C23 ----
\* The life of one Cluster and its ClusterMarker_ as the engine drives it,
\* with the member list reduced to its length.  Here last is
\* [op, n, len, badge, looked]: n is markers_.length, len is styles_.length,
\* badge is null or the badge's count, its style index and the outcome of
\* its style lookup, and looked tells whether the operation ran the lookup.
MaxMembers == 101

\* styles_.length: the built-in styles, or an array given as the styles
\* option, which is adopted when its length is not 0
StylesLengths == {1, 2, Len(BuiltinStyles)}

\* the loop of lines 614-617: dv = parseInt(dv / 10, 10) until dv is 0
RECURSIVE digitLoop(_, _)
digitLoop(dv, index) == IF dv = 0 THEN index ELSE digitLoop(dv \div 10, index + 1)

\* an index that is not lowered to styles.length
styleIndex_unclamped(count, len) == digitLoop(count, 0)

\* lines 612-623 of reset: the index for count among len styles
styleIndex(count, len) ==
  LET index == digitLoop(count, 0)
  IN IF len < index THEN len ELSE index

\* lines 610-631 of reset when the count is taken over: styles[index - 1] is
\* undefined outside 0..len-1, and reading a property of undefined throws
ClusterMarker_lookup(count, len) ==
  LET index == styleIndex(count, len)
  IN [count_ |-> count, index_ |-> index,
      err |-> IF index - 1 \in 0..(len - 1) THEN "none" ELSE "TypeError"]

\* redraw_ that is not skipped (lines 526-559) on a cluster of n members with
\* badge b: the constructor's reset always runs the lookup (its styles are
\* new to the badge), reset({count}) runs it when the count differs
BadgeCluster_redraw(n, b, len) ==
  IF mapZoom >= redrawMz \/ n = 1 THEN [badge |-> b, looked |-> FALSE]
  ELSE IF b = <<>> \/ n # b[1].count_
       THEN [badge |-> <<ClusterMarker_lookup(n, len)>>, looked |-> TRUE]
       ELSE [badge |-> b, looked |-> FALSE]

\* new Cluster(...) in addMarker (line 232): no member, no badge
BadgeInit ==
  /\ clusters_ = <<>>
  /\ leftMarkers_ = <<>>
  /\ maxZoom_ \in MaxZoomOptions
  /\ mapZoom \in Zooms
  /\ mapBounds \in Viewports
  /\ layers = {}
  /\ badges = 0
  /\ registered = {}
  /\ \E len \in StylesLengths :
       last = [op |-> "new", n |-> 0, len |-> len, badge |-> <<>>, looked |-> FALSE]

\* LeafClusterer.addMarker on this cluster: Cluster.addMarker, then redraw_
\* unless it is suppressed or skipped
BadgePlace ==
  /\ last.n < MaxMembers
  /\ \E drawn \in BOOLEAN :
       LET r == IF drawn THEN BadgeCluster_redraw(last.n + 1, last.badge, last.len)
                ELSE [badge |-> last.badge, looked |-> FALSE]
       IN last' = [op |-> "addMarker", n |-> last.n + 1, len |-> last.len,
                   badge |-> r.badge, looked |-> r.looked]
  /\ UNCHANGED <<clusters_, leftMarkers_, maxZoom_, mapZoom, mapBounds, layers, badges,
                 registered>>

\* LeafClusterer.redraw_ redraws the clusters isInBounds accepts, and
\* isInBounds is false for a cluster without center, one no marker was added to
BadgeRedraw ==
  /\ last.n >= 1
  /\ LET r == BadgeCluster_redraw(last.n, last.badge, last.len)
     IN last' = [op |-> "redraw_", n |-> last.n, len |-> last.len,
                 badge |-> r.badge, looked |-> r.looked]
  /\ UNCHANGED <<clusters_, leftMarkers_, maxZoom_, mapZoom, mapBounds, layers, badges,
                 registered>>

\* LeafClusterer.removeMarker while this cluster is in clusters_ (lines
\* 254-261): it calls clusters_[i].remove
BadgeRemove ==
  /\ last.n >= 1
  /\ IF "remove" \notin ClusterMethods
     THEN last' = [last EXCEPT !.op = "removeMarker", !.looked = FALSE]
     ELSE LET r == BadgeCluster_redraw(last.n - 1, last.badge, last.len)
          IN last' = [op |-> "removeMarker", n |-> last.n - 1, len |-> last.len,
                      badge |-> r.badge, looked |-> r.looked]
  /\ UNCHANGED <<clusters_, leftMarkers_, maxZoom_, mapZoom, mapBounds, layers, badges,
                 registered>>

\* resetViewport after a zoom change dissolves the cluster (lines 354-368);
\* addMarker then constructs a new one
BadgeDissolve ==
  /\ last.n >= 1
  /\ \E z \in Zooms \ {mapZoom} : mapZoom' = z
  /\ last' = [op |-> "resetViewport", n |-> 0, len |-> last.len, badge |-> <<>>,
              looked |-> FALSE]
  /\ UNCHANGED <<clusters_, leftMarkers_, maxZoom_, mapBounds, layers, badges, registered>>

BadgeNext ==
  \/ BadgePlace
  \/ BadgeRedraw
  \/ BadgeRemove
  \/ BadgeDissolve

SpecBadge == BadgeInit /\ [][BadgeNext]_vars

RECURSIVE Pow10(_)
Pow10(d) == IF d <= 0 THEN 1 ELSE 10 * Pow10(d - 1)

\* the number of decimal digits of a positive count
Digits(count) == CHOOSE d \in 1..4 : Pow10(d - 1) <= count /\ count < Pow10(d)

\* C23: whenever a badge is created or its count updated, the count is not 0,
\* the style index is the number of decimal digits of the count, lowered to
\* the number of styles when it exceeds it, the index lies in 1..number of
\* styles, and the style lookup succeeds.
C23_StyleTier ==
  last.looked =>
    LET b == last.badge[1]
    IN /\ b.count_ = last.n
       /\ b.count_ >= 1
       /\ b.index_ = IF Digits(b.count_) > last.len THEN last.len ELSE Digits(b.count_)
       /\ b.index_ \in 1..last.len
       /\ b.err = "none"

\* a badge took over a count of three digits with two styles configured
C23_Witness ==
  /\ last.looked
  /\ last.len = 2
  /\ last.badge[1].count_ >= 100
  /\ last.badge[1].index_ = 2

\* ---- C24 ----
\* the steps of one resetViewport pass on engine e in view v: the markers the
\* dissolution loop collected, the engine after that loop, after the collected
\* markers were re-placed, after the pending markers were placed, the
\* clusters in view at that moment, and the engine after the closing redraw_
PassSteps(e, v) ==
  LET d == resetViewport_dissolve(e, v)
      replaced == reAddLoop([d.e EXCEPT !.local = <<>>], d.tmpMarkers, Len(d.tmpMarkers), v)
      placed == addLeftMarkers_(replaced, v)
  IN [collected |-> { d.tmpMarkers[i].marker : i \in DOMAIN d.tmpMarkers },
      dissolved |-> d.e,
      replaced |-> replaced,
      placed |-> placed,
      inView |-> { k \in DOMAIN placed.clusters_ :
                     Cluster_isInBounds(placed.clusters_[k], v) },
      done |-> redraw_(placed, v)]

\* C24: one resetViewport pass first dissolves every stale cluster of the
\* view (afterwards no collected marker is in a cluster and the pending list
\* is untouched), then re-places the collected markers (the pending ones
\* still wait), then places the pending markers, and only then redraws:
\* from the dissolution to the end of placement no marker is attached, no
\* badge is created or updated and no redraw_ runs, and the closing redraw
\* covers exactly the clusters that intersect the view at that moment.
C24_PassOrder ==
  [][ ResetStep =>
        \A v \in {ViewNext} : \A next \in {clusters_'} :
          LET s == PassSteps(Engine, v)
              n == Len(s.dissolved.clusters_)
          IN /\ \A k \in 1..n : ~StaleInView(s.dissolved.clusters_[k], v)
             /\ s.dissolved.leftMarkers_ = leftMarkers_
             /\ s.dissolved.layers \subseteq layers
             /\ s.dissolved.badges <= badges
             /\ \A m \in s.collected :
                  /\ ~InSomeCluster(s.dissolved.clusters_, m)
                  /\ InSomeCluster(s.replaced.clusters_, m)
             /\ s.replaced.leftMarkers_ = leftMarkers_
             /\ \A p \in Range(leftMarkers_) :
                  /\ ~InSomeCluster(s.replaced.clusters_, p)
                  /\ InSomeCluster(s.placed.clusters_, p)
             /\ s.placed.leftMarkers_ = <<>>
             /\ s.placed.layers = s.dissolved.layers
             /\ s.placed.badges = s.dissolved.badges
             /\ s.placed.redrawn = {}
             /\ \A k \in DOMAIN s.placed.clusters_ :
                  s.placed.clusters_[k].clusterMarker_ =
                    IF k <= n THEN s.dissolved.clusters_[k].clusterMarker_ ELSE <<>>
             /\ s.done.redrawn = s.inView
             /\ last'.redrawn = s.inView
             /\ layers' = s.done.layers
             /\ badges' = s.done.badges
             /\ Len(next) = Len(s.placed.clusters_)
             /\ \A k \in DOMAIN next :
                  MemberSeq(next[k]) = MemberSeq(s.placed.clusters_[k])
    ]_vars

\* a state with pending markers and a view in which a pass dissolves a
\* cluster, places markers and creates a badge in its closing redraw
C24_Witness ==
  /\ leftMarkers_ # <<>>
  /\ \E v \in AllViews :
       LET s == PassSteps(Engine, v)
       IN /\ s.dissolved.removed >= 1
          /\ s.placed.badges = s.dissolved.badges
          /\ s.done.badges > s.placed.badges
          /\ s.done.redrawn = s.inView

\* ---- C25 ----
\* the positions in clusters_ of the clusters a pass in view v dissolves
StaleSet(v) == { k \in DOMAIN clusters_ : StaleInView(clusters_[k], v) }

\* C25: when a resetViewport pass dissolves exactly one cluster, with members
\* m1..mn in member order, the first cluster the pass creates has mn as its
\* first member and the position of mn as its center (the dissolved
\* cluster's center was the position of m1).
C25_ReverseReplacement ==
  [][ ResetStep =>
        \A v \in {ViewNext} : \A next \in {clusters_'} :
          Cardinality(StaleSet(v)) = 1 =>
            LET c == clusters_[CHOOSE k \in StaleSet(v) : TRUE]
                mn == c.markers_[Len(c.markers_)].marker
                first == Len(next) - last'.created + 1
            IN /\ c.center_ = <<LatLng(c.markers_[1].marker)>>
               /\ last'.created >= 1
               /\ next[first].markers_[1].marker = mn
               /\ next[first].center_ = <<LatLng(mn)>>
    ]_vars

\* a state and a view in which a pass dissolves one cluster of several
\* members and the first cluster it creates is centered on the last member's
\* position, which is not the dissolved cluster's center
C25_Witness ==
  \E v \in AllViews :
    /\ Cardinality(StaleSet(v)) = 1
    /\ LET c == clusters_[CHOOSE k \in StaleSet(v) : TRUE]
           e == resetViewport(Engine, v)
           first == Len(e.clusters_) - e.created + 1
       IN /\ Len(c.markers_) >= 2
          /\ e.created >= 1
          /\ e.clusters_[first].center_ = <<LatLng(c.markers_[Len(c.markers_)].marker)>>
          /\ e.clusters_[first].center_ # c.center_

\* ---- C26 ----
\* over a step, a cluster's zoom stamp changes only if the step redrew the
\* cluster, and a redrawn or newly constructed cluster is stamped with the
\* map's zoom; the clusters that stay keep their positions in clusters_,
\* except in a resetViewport pass, where those not dissolved move to the front
StampedByRedrawOnly ==
  \A v \in {ViewNext} : \A next \in {clusters_'} : \A ln \in {last'} :
    LET kept == IF ln.op \in {"resetViewport", "moveend"}
                THEN SelectSeq(clusters_, LAMBDA c : ~StaleInView(c, v))
                ELSE IF ln.op = "clearMarkers" THEN <<>>
                ELSE clusters_
    IN /\ Len(next) = Len(kept) + ln.created
       /\ \A j \in DOMAIN kept :
            next[j].zoom_ # kept[j].zoom_ => j \in ln.redrawn
       /\ \A j \in DOMAIN next :
            (j \in ln.redrawn \/ j > Len(kept)) => next[j].zoom_ = v.zoom

\* redraw_ on a cluster of the current state, in any view: it is skipped
\* exactly when it is not forced and isInBounds is false, a skipped redraw_
\* leaves the stamp and a redraw_ that runs sets it to the view's zoom
RedrawStamps ==
  \A k \in DOMAIN clusters_ : \A v \in AllViews : \A isForce \in BOOLEAN :
    LET r == Cluster_redraw_(clusters_[k], [layers |-> layers, badges |-> badges],
                             isForce, v)
    IN /\ r.drawn = (isForce \/ Cluster_isInBounds(clusters_[k], v))
       /\ r.c.zoom_ = IF r.drawn THEN v.zoom ELSE clusters_[k].zoom_

\* the calls that are not a redraw, made in the current state with marker mk:
\* addMarker with redraw suppressed, Cluster.addMarker and Cluster.removeMarker
\* leave every zoom stamp; the first two leave the attached markers and the
\* badges, and Cluster.removeMarker leaves the badge and detaches at most the
\* marker it removes.  With membersToo, also: they leave every member list
\* and the attached markers as they are.
QuietCalls(mk, membersToo) ==
  LET e == addMarker(Engine, mk, TRUE, <<>>, "null", TRUE, View)
      rec == [isAdded |-> FALSE, marker |-> mk]
      ov == [layers |-> layers, badges |-> badges]
  IN /\ e.redrawn = {}
     /\ e.layers = layers
     /\ e.badges = badges
     /\ \A k \in DOMAIN e.clusters_ :
          IF k <= Len(clusters_)
          THEN /\ e.clusters_[k].zoom_ = clusters_[k].zoom_
               /\ e.clusters_[k].clusterMarker_ = clusters_[k].clusterMarker_
               /\ membersToo => e.clusters_[k].markers_ = clusters_[k].markers_
          ELSE e.clusters_[k].clusterMarker_ = <<>>
     /\ \A k \in DOMAIN clusters_ :
          LET a == Cluster_addMarker(clusters_[k], rec)
          IN /\ a.zoom_ = clusters_[k].zoom_
             /\ a.clusterMarker_ = clusters_[k].clusterMarker_
             /\ membersToo => a.markers_ = clusters_[k].markers_
     /\ \A k \in DOMAIN clusters_ : \A m \in Markers :
          LET r == Cluster_removeMarker(clusters_[k], ov, m)
          IN /\ r.c.zoom_ = clusters_[k].zoom_
             /\ r.c.clusterMarker_ = clusters_[k].clusterMarker_
             /\ r.layers \subseteq layers
             /\ layers \ r.layers \subseteq {m}
             /\ membersToo => (r.c.markers_ = clusters_[k].markers_ /\ r.layers = layers)

C27_VisibleAfterAddMarker ==
  (last.op = "addMarker" /\ BoundsContains(mapBounds, LatLng(last.marker))) =>
    \/ last.marker \in layers
    \/ \E k \in DOMAIN clusters_ :
         /\ last.marker \in Cluster_members(clusters_[k])
         /\ BadgeVisible(clusters_[k])
         /\ clusters_[k].clusterMarker_[1].count_ = Len(clusters_[k].markers_)

\* ---- C28 ----
\* C28: a resetViewport pass that follows a resetViewport pass directly, with
\* the map's zoom and bounds as the first pass saw them, dissolves no cluster
\* and constructs none, and leaves the global cluster set (every cluster's
\* members, center, zoom stamp and badge), the pending list, the attached
\* markers and the number of badges as the first pass left them.
C28_ResetIdempotent ==
  [][ (last.op \in {"resetViewport", "moveend"} /\ last'.op = "resetViewport") =>
        /\ last'.removed = 0
        /\ last'.created = 0
        /\ clusters_' = clusters_
        /\ leftMarkers_' = leftMarkers_
        /\ layers' = layers
        /\ badges' = badges
    ]_vars

\* a first pass, run on a change of view, has dissolved a cluster and left a
\* cluster with a visible badge and one with its markers attached; a second
\* pass in the same view redraws clusters and ends in the same engine
C28_Witness ==
  /\ last.op = "moveend"
  /\ last.removed >= 1
  /\ \E k \in DOMAIN clusters_ : BadgeVisible(clusters_[k])
  /\ layers # {}
  /\ LET e == resetViewport(Engine, View)
     IN /\ e.redrawn # {}
        /\ e.removed = 0
        /\ e.clusters_ = clusters_

====
